---- MODULE Spec2Model ----
(***************************************************************************)
(* Booking validation and persistence engine of the care-worker booking   *)
(* platform (lib/bookingPersistence.ts, lib/dateUtils.ts,                  *)
(* lib/availabilityUtils.ts).                                              *)
(*                                                                         *)
(* Strings are sequences of one-character strings, so that trimming,       *)
(* lower-casing, splitting and integer parsing are modelled by what they   *)
(* do.  A YYYY-MM-DD date string is a record [y, m, d]; a Date object at   *)
(* local midnight is its day number counted from 2025-01-01; an instant is *)
(* a number of minutes counted from 2025-01-01 00:00 local time.           *)
(***************************************************************************)
EXTENDS Integers, Sequences, FiniteSets, TLC

\* An absent (undefined / null / missing) field of a JavaScript object, for
\* each kind of value: identifier or enumeration, character string, object,
\* number.
NoValue == "undefined"

NoString == <<"undefined">>

NoRecord == [undefined |-> TRUE]

NoNumber == -2

\* parseInt() of a string without a leading digit.
NaN == -1

(***************************************************************************)
(*                         Strings and HH:MM times                         *)
(***************************************************************************)

Digits == <<"0", "1", "2", "3", "4", "5", "6", "7", "8", "9">>

IsDigit(c) == \E i \in 1..10 : Digits[i] = c

DigitValue(c) == (CHOOSE i \in 1..10 : Digits[i] = c) - 1

\* String.prototype.indexOf for a single character; 0 when absent.
IndexOf(s, c) ==
  IF \E i \in 1..Len(s) : s[i] = c
    THEN CHOOSE i \in 1..Len(s) : s[i] = c /\ \A j \in 1..(i - 1) : s[j] # c
    ELSE 0

\* time.split(':') : the sequence of the parts between the separators.
RECURSIVE Split(_, _)
Split(s, c) ==
  LET i == IndexOf(s, c)
  IN  IF i = 0 THEN <<s>>
      ELSE <<SubSeq(s, 1, i - 1)>> \o Split(SubSeq(s, i + 1, Len(s)), c)

\* parseInt(value, 10) : the number spelled by the leading digits, NaN if none.
RECURSIVE ParseDigits(_, _)
ParseDigits(s, acc) ==
  IF s = <<>> \/ ~IsDigit(Head(s)) THEN acc
  ELSE ParseDigits(Tail(s), acc * 10 + DigitValue(Head(s)))

ParseInt(s) ==
  IF s = <<>> \/ ~IsDigit(Head(s)) THEN NaN ELSE ParseDigits(s, 0)

\* (x || 0) for the result of parseInt, also for a part split() did not yield.
OrZero(n) == IF n = NaN THEN 0 ELSE n

PartOrNaN(parts, i) == IF i <= Len(parts) THEN ParseInt(parts[i]) ELSE NaN

timeToMinutes(time) ==
  LET parts == Split(time, ":")
  IN  OrZero(PartOrNaN(parts, 1)) * 60 + OrZero(PartOrNaN(parts, 2))

\* startTime.replace(':', '-') : only the first occurrence is replaced.
ReplaceFirst(s, c, r) ==
  LET i == IndexOf(s, c)
  IN  IF i = 0 THEN s ELSE [s EXCEPT ![i] = r]

\* String.prototype.trim
RECURSIVE TrimLeft(_)
TrimLeft(s) == IF s # <<>> /\ Head(s) = " " THEN TrimLeft(Tail(s)) ELSE s

RECURSIVE TrimRight(_)
TrimRight(s) ==
  IF s # <<>> /\ s[Len(s)] = " " THEN TrimRight(SubSeq(s, 1, Len(s) - 1)) ELSE s

Trim(s) == TrimRight(TrimLeft(s))

\* String.prototype.toLowerCase on the letters the model uses.
LowerChar(c) ==
  CASE c = "T" -> "t"
    [] c = "O" -> "o"
    [] OTHER   -> c

ToLowerCase(s) == [i \in 1..Len(s) |-> LowerChar(s[i])]

\* (x || '') for an optional string field.
OrEmpty(s) == IF s = NoString THEN <<>> ELSE s

(***************************************************************************)
(*                                Calendar                                 *)
(***************************************************************************)

BaseYear == 2025

\* getDay() of 1 January 2025, a Wednesday.
BaseWeekday == 3

IsLeap(y) == (y % 4 = 0 /\ y % 100 # 0) \/ y % 400 = 0

DaysInMonth(y, m) ==
  CASE m \in {4, 6, 9, 11} -> 30
    [] m = 2               -> IF IsLeap(y) THEN 29 ELSE 28
    [] OTHER               -> 31

DaysInYear(y) == IF IsLeap(y) THEN 366 ELSE 365

RECURSIVE DaysBeforeYear(_)
DaysBeforeYear(y) ==
  IF y <= BaseYear THEN 0 ELSE DaysBeforeYear(y - 1) + DaysInYear(y - 1)

RECURSIVE DaysBeforeMonth(_, _)
DaysBeforeMonth(y, m) ==
  IF m <= 1 THEN 0 ELSE DaysBeforeMonth(y, m - 1) + DaysInMonth(y, m - 1)

\* new Date(year, month - 1, day) : a day past the end of the month rolls over.
parseLocalDate(ds) == DaysBeforeYear(ds.y) + DaysBeforeMonth(ds.y, ds.m) + ds.d - 1

\* toLocalDate of a YYYY-MM-DD string.
toLocalDate(ds) == parseLocalDate(ds)

YearOf(n) ==
  CHOOSE y \in BaseYear..(BaseYear + 2) :
    DaysBeforeYear(y) <= n /\ n < DaysBeforeYear(y) + DaysInYear(y)

MonthOf(n) ==
  LET y == YearOf(n)
      r == n - DaysBeforeYear(y)
  IN  CHOOSE m \in 1..12 :
        DaysBeforeMonth(y, m) <= r /\ r < DaysBeforeMonth(y, m) + DaysInMonth(y, m)

\* The YYYY-MM-DD string of a Date at local midnight.
formatLocalDate(n) ==
  LET y == YearOf(n)
      m == MonthOf(n)
  IN  [y |-> y, m |-> m, d |-> n - DaysBeforeYear(y) - DaysBeforeMonth(y, m) + 1]

\* Date.prototype.getDay : 0 = Sunday .. 6 = Saturday.
getDay(n) == (BaseWeekday + n) % 7

MinutesPerDay == 1440

(***************************************************************************)
(*                        Recurrence expansion                             *)
(***************************************************************************)

T0900 == <<"0", "9", ":", "0", "0">>

T1000 == <<"1", "0", ":", "0", "0">>

\* (booking.startTime || '09:00') and (booking.endTime || '10:00')
\* The start time read without its default.
StartTimeOf_NoDefault(b) == b.startTime

StartTimeOf(b) == IF b.startTime = NoString \/ b.startTime = <<>> THEN T0900 ELSE b.startTime

EndTimeOf(b) == IF b.endTime = NoString \/ b.endTime = <<>> THEN T1000 ELSE b.endTime

\* booking.pswWorkerId || booking.userId
WorkerIdOf(b) == IF b.pswWorkerId # NoValue THEN b.pswWorkerId ELSE b.userId

\* `${dateString}_${timeFragment}_${workerFragment}`
GeneratedId(b, dateString) ==
  [date   |-> dateString,
   time   |-> ReplaceFirst(StartTimeOf(b), ":", "-"),
   worker |-> IF WorkerIdOf(b) # NoValue THEN WorkerIdOf(b) ELSE "slot"]

addOccurrence(b, n) ==
  [b EXCEPT !.id = GeneratedId(b, formatLocalDate(n)),
            !.date = formatLocalDate(n),
            !.recurringPattern = NoRecord]

\* date-fns addMonths(date, 1): the day of the month is kept, clamped to the
\* length of the target month.
addMonths1(n) ==
  LET ds == formatLocalDate(n)
      ty == IF ds.m = 12 THEN ds.y + 1 ELSE ds.y
      tm == IF ds.m = 12 THEN 1 ELSE ds.m + 1
      td == IF ds.d > DaysInMonth(ty, tm) THEN DaysInMonth(ty, tm) ELSE ds.d
  IN  parseLocalDate([y |-> ty, m |-> tm, d |-> td])

\* Array.prototype.includes on the weekday list.
Includes(seq, v) == \E i \in 1..Len(seq) : seq[i] = v

RECURSIVE DailyFrom(_, _, _, _)
DailyFrom(b, base, i, daysBetween) ==
  IF i > daysBetween THEN <<>>
  ELSE <<addOccurrence(b, base + i)>> \o DailyFrom(b, base, i + 1, daysBetween)

\* The weekly loop with the end date excluded.
RECURSIVE WeeklyFrom_ExclusiveEnd(_, _, _, _, _, _)
WeeklyFrom_ExclusiveEnd(b, base, i, daysBetween, daysOfWeek, frequency) ==
  IF i >= daysBetween THEN <<>>
  ELSE LET current == base + i
           diff == current - base
           withinInterval == frequency = "weekly" \/ (diff \div 7) % 2 = 0
       IN  (IF withinInterval /\ Includes(daysOfWeek, getDay(current))
              THEN <<addOccurrence(b, current)>> ELSE <<>>)
           \o WeeklyFrom_ExclusiveEnd(b, base, i + 1, daysBetween, daysOfWeek, frequency)

\* The weekly loop with every week inside the interval, whatever the
\* frequency.
RECURSIVE WeeklyFrom_EveryWeek(_, _, _, _, _, _)
WeeklyFrom_EveryWeek(b, base, i, daysBetween, daysOfWeek, frequency) ==
  IF i > daysBetween THEN <<>>
  ELSE LET current == base + i
       IN  (IF Includes(daysOfWeek, getDay(current))
              THEN <<addOccurrence(b, current)>> ELSE <<>>)
           \o WeeklyFrom_EveryWeek(b, base, i + 1, daysBetween, daysOfWeek, frequency)

RECURSIVE WeeklyFrom(_, _, _, _, _, _)
WeeklyFrom(b, base, i, daysBetween, daysOfWeek, frequency) ==
  IF i > daysBetween THEN <<>>
  ELSE LET current == base + i
           diff == current - base
           withinInterval == frequency = "weekly" \/ (diff \div 7) % 2 = 0
       IN  (IF withinInterval /\ Includes(daysOfWeek, getDay(current))
              THEN <<addOccurrence(b, current)>> ELSE <<>>)
           \o WeeklyFrom(b, base, i + 1, daysBetween, daysOfWeek, frequency)

RECURSIVE MonthlyFrom(_, _, _)
MonthlyFrom(b, current, endDate) ==
  IF current > endDate THEN <<>>
  ELSE <<addOccurrence(b, current)>> \o MonthlyFrom(b, addMonths1(current), endDate)

\* The expansion without the test that the end date is not before the base
\* date.
generateRecurringOccurrences_NoGuard(b) ==
  LET baseDate == toLocalDate(b.date)
      pattern == b.recurringPattern
      endDate == IF pattern.endDate # NoRecord THEN toLocalDate(pattern.endDate) ELSE baseDate
      daysBetween == endDate - baseDate
      daysOfWeek == IF Len(pattern.daysOfWeek) > 0 THEN pattern.daysOfWeek
                    ELSE <<getDay(baseDate)>>
  IN  CASE pattern.frequency = "daily" -> DailyFrom(b, baseDate, 0, daysBetween)
        [] pattern.frequency \in {"weekly", "biweekly"} ->
             WeeklyFrom(b, baseDate, 0, daysBetween, daysOfWeek, pattern.frequency)
        [] pattern.frequency = "monthly" -> MonthlyFrom(b, baseDate, endDate)
        [] OTHER -> <<addOccurrence(b, baseDate)>>

generateRecurringOccurrences(b) ==
  LET baseDate == toLocalDate(b.date)
      pattern == b.recurringPattern
      endDate == IF pattern.endDate # NoRecord THEN toLocalDate(pattern.endDate) ELSE baseDate
      daysBetween == endDate - baseDate
      daysOfWeek == IF Len(pattern.daysOfWeek) > 0 THEN pattern.daysOfWeek
                    ELSE <<getDay(baseDate)>>
  IN  IF baseDate > endDate THEN <<b>>
      ELSE CASE pattern.frequency = "daily" -> DailyFrom(b, baseDate, 0, daysBetween)
             [] pattern.frequency \in {"weekly", "biweekly"} ->
                  WeeklyFrom(b, baseDate, 0, daysBetween, daysOfWeek, pattern.frequency)
             [] pattern.frequency = "monthly" -> MonthlyFrom(b, baseDate, endDate)
             [] OTHER -> <<addOccurrence(b, baseDate)>>

RECURSIVE expandRecurringBookings(_)
expandRecurringBookings(bookings) ==
  IF bookings = <<>> THEN <<>>
  ELSE (IF Head(bookings).recurringPattern = NoRecord THEN <<Head(bookings)>>
        ELSE generateRecurringOccurrences(Head(bookings)))
       \o expandRecurringBookings(Tail(bookings))

(***************************************************************************)
(*                           Worker search                                 *)
(***************************************************************************)

\* Array.prototype.join
RECURSIVE Join(_, _)
Join(parts, sep) ==
  IF parts = <<>> THEN <<>>
  ELSE IF Len(parts) = 1 THEN parts[1]
  ELSE parts[1] \o sep \o Join(Tail(parts), sep)

\* value.split(',').map((part) => part.trim()).filter(Boolean)
TrimmedParts(value) ==
  LET raw == Split(value, ",")
  IN  SelectSeq([i \in 1..Len(raw) |-> Trim(raw[i])], LAMBDA part : part # <<>>)

\* normalizeLocation of the search engine: the comma-separated parts trimmed,
\* a leading street part dropped, joined again and lower-cased.
normalizeLocation(value) ==
  IF value = NoString \/ value = <<>> THEN <<>>
  ELSE LET parts == TrimmedParts(value)
           hasStreetNumber == IsDigit(parts[1][1])
           relevantParts == IF hasStreetNumber /\ Len(parts) > 1 THEN Tail(parts) ELSE parts
       IN  IF Len(parts) = 0 THEN ToLowerCase(Trim(value))
           ELSE ToLowerCase(Join(relevantParts, <<",", " ">>))

\* The filters of a search: the client's location and the city switch; the
\* other filters are not set.
Filters(clientLocation, matchClientCityOnly) ==
  [clientLocation |-> clientLocation, matchClientCityOnly |-> matchClientCityOnly]

\* searchWorkers with only the city filter set: the identifiers of the
\* workers it returns.
searchWorkers(ws, filters) ==
  IF filters.matchClientCityOnly /\ filters.clientLocation # NoString
                                 /\ filters.clientLocation # <<>>
    THEN LET clientCity == normalizeLocation(filters.clientLocation)
         IN  {w \in DOMAIN ws : normalizeLocation(ws[w].location) = clientCity}
  ELSE DOMAIN ws

(***************************************************************************)
(*                    Validation of one occurrence                         *)
(***************************************************************************)

MIN_NOTICE_HOURS == 24

CONFIRMATION_WINDOW_HOURS == 12

\* new BookingError(message, status, details)
BookingError(kind, status, details) ==
  [err |-> kind, status |-> status, details |-> details]

\* A notice check that also refuses a slot exactly 24 hours ahead.
InsufficientNotice_Strict(targetDate, startTime, t) ==
  targetDate * MinutesPerDay + timeToMinutes(startTime) - t <= MIN_NOTICE_HOURS * 60

\* ensureAdvanceNotice: TRUE when the slot starts too soon after instant t.
\* Instants are in minutes, so diffHours < 24 is diffMinutes < 24 * 60.
InsufficientNotice(targetDate, startTime, t) ==
  LET parts == Split(startTime, ":")
      slotStart == targetDate * MinutesPerDay
                     + OrZero(PartOrNaN(parts, 1)) * 60 + OrZero(PartOrNaN(parts, 2))
  IN  slotStart - t < MIN_NOTICE_HOURS * 60

\* SERVICE_LEVEL_PRICING, in tenths.
SERVICE_LEVEL_PRICING(level) ==
  CASE level = "basic"    -> 10
    [] level = "enhanced" -> 12
    [] level = "premium"  -> 14
    [] OTHER              -> 10

\* The price with the fraction of a cent dropped.
calculatePrice_Floor(hourlyRate, serviceLevel, durationMinutes) ==
  (hourlyRate * SERVICE_LEVEL_PRICING(serviceLevel) * durationMinutes) \div 6

\* calculatePrice, in cents: Math.round(rate * multiplier * minutes / 60 * 100).
calculatePrice(hourlyRate, serviceLevel, durationMinutes) ==
  LET n == hourlyRate * SERVICE_LEVEL_PRICING(serviceLevel) * durationMinutes
  IN  (2 * n + 6) \div 12

\* normalizeWorkerBookings on one raw booking: the fields the conflict check
\* reads, with their defaults.
normalizeWorkerBooking(raw, t) ==
  [id        |-> raw.id,
   date      |-> IF raw.date # NoRecord THEN toLocalDate(raw.date) ELSE t \div MinutesPerDay,
   startTime |-> StartTimeOf(raw),
   endTime   |-> EndTimeOf(raw),
   status    |-> IF raw.status # NoValue THEN raw.status ELSE "confirmed"]

\* The bookings query: where pswWorkerId == workerId and date == dateString.
QueryBookings(st, workerId, dateString) ==
  {st[i] : i \in {j \in DOMAIN st : st[j].pswWorkerId = workerId /\ st[j].date = dateString}}

\* combinedBookingsMap: the embedded bookings of the worker record followed by
\* the queried ones, keyed by id, a later entry replacing an earlier one.
CombinedBookings(workerData, st, workerId, dateString, t) ==
  LET queried == {normalizeWorkerBooking(d, t) : d \in QueryBookings(st, workerId, dateString)}
      emb == workerData.bookings
      embedded == {normalizeWorkerBooking(emb[i], t) :
                     i \in {j \in 1..Len(emb) :
                              /\ \A k \in (j + 1)..Len(emb) : emb[k].id # emb[j].id
                              /\ \A q \in queried : q.id # emb[j].id}}
  IN  embedded \cup queried

\* A conflict test that also counts a shared boundary.
hasConflict_Touching(combinedBookings, newStart, newEnd, dateString) ==
  \E existing \in combinedBookings :
     /\ newStart <= timeToMinutes(existing.endTime)
     /\ newEnd >= timeToMinutes(existing.startTime)
     /\ formatLocalDate(existing.date) = dateString

hasConflict(combinedBookings, newStart, newEnd, dateString) ==
  \E existing \in combinedBookings :
     /\ newStart < timeToMinutes(existing.endTime)
     /\ newEnd > timeToMinutes(existing.startTime)
     /\ formatLocalDate(existing.date) = dateString

\* workerDayAvailability: the windows of the weekday of the requested date.
workerDayAvailability(workerData, localDate) ==
  SelectSeq(workerData.availability,
            LAMBDA avail : avail.dayOfWeek # NoNumber /\ avail.dayOfWeek = getDay(localDate))

\* A working-hours check against the union of the windows of the day.
withinAvailability_Union(windows, startTime, endTime) ==
  /\ \E i \in 1..Len(windows) :
        timeToMinutes(startTime) >= timeToMinutes(windows[i].startTime)
  /\ \E i \in 1..Len(windows) :
        timeToMinutes(endTime) <= timeToMinutes(windows[i].endTime)

withinAvailability(windows, startTime, endTime) ==
  \E i \in 1..Len(windows) :
     /\ timeToMinutes(startTime) >= timeToMinutes(windows[i].startTime)
     /\ timeToMinutes(endTime) <= timeToMinutes(windows[i].endTime)

\* The document written for an occurrence that passed validation.
Payload(b, workerData, workerId, dateString, serviceLevel, durationMinutes, t) ==
  LET createdAt == IF b.createdAt # NoNumber THEN b.createdAt ELSE t
      requestedAt == IF b.requestedAt # NoNumber THEN b.requestedAt ELSE t
      confirmationDeadline ==
        IF b.confirmationDeadline # NoNumber THEN b.confirmationDeadline
        ELSE requestedAt + CONFIRMATION_WINDOW_HOURS * 60
      price == IF b.price # NoNumber THEN b.price
               ELSE calculatePrice(workerData.hourlyRate, serviceLevel, durationMinutes)
  IN  [b EXCEPT !.pswWorkerId = workerId,
                !.date = dateString,
                !.serviceLevel = serviceLevel,
                !.price = price,
                !.status = IF b.status # NoValue THEN b.status ELSE "pending",
                !.requestedAt = requestedAt,
                !.confirmationDeadline = confirmationDeadline,
                !.createdAt = createdAt]

\* (x || null) for an optional string field: the empty string is falsy too.
OrNull(s) == IF s = <<>> THEN NoString ELSE s

\* A normalization that forgets to trim.
normalizeCity_NoTrim(location) == ToLowerCase(OrEmpty(location))

\* (location || '').trim().toLowerCase()
normalizeCity(location) == ToLowerCase(Trim(OrEmpty(location)))

NoDetails == [workerLocation |-> NoString, clientLocation |-> NoString]

\* The body of the validation loop for one occurrence b, reading the worker
\* and client directories wk and cl and the bookings collection st at
\* instant t: the BookingError thrown, or err = "none" with the payload.
ValidateOccurrence(b, wk, cl, st, t) ==
  LET workerId == WorkerIdOf(b)
      clientId == b.clientId
      localDate == toLocalDate(b.date)
      dateString == formatLocalDate(localDate)
      workerData == wk[workerId]
      clientData == cl[clientId]
      workerLocation == normalizeCity(workerData.location)
      clientLocation == normalizeCity(clientData.location)
      startTime == StartTimeOf(b)
      endTime == EndTimeOf(b)
      diffMinutes == timeToMinutes(endTime) - timeToMinutes(startTime)
      durationMinutes == IF diffMinutes > 0 THEN diffMinutes ELSE 0
      serviceLevel == IF b.serviceLevel # NoValue THEN b.serviceLevel ELSE "basic"
      windows == workerDayAvailability(workerData, localDate)
      combinedBookings == CombinedBookings(workerData, st, workerId, dateString, t)
      Fail(kind, status) == BookingError(kind, status, NoDetails) @@ [payload |-> b]
  IN  CASE b.id = NoRecord -> Fail("MissingId", 400)
        [] b.id # NoRecord /\ b.date = NoRecord -> Fail("MissingDate", 400)
        [] OTHER ->
      IF workerId = NoValue THEN Fail("MissingWorker", 400)
      ELSE IF clientId = NoValue THEN Fail("MissingClient", 400)
      ELSE IF workerId \notin DOMAIN wk THEN Fail("WorkerNotFound", 404)
      ELSE IF clientId \notin DOMAIN cl THEN Fail("ClientNotFound", 404)
      ELSE IF workerLocation = <<>> \/ clientLocation = <<>> \/ workerLocation # clientLocation
        THEN BookingError("LocationMismatch", 409,
                          [workerLocation |-> OrNull(workerData.location),
                           clientLocation |-> OrNull(clientData.location)]) @@ [payload |-> b]
      ELSE IF durationMinutes <= 0 THEN Fail("InvalidTimeRange", 400)
      ELSE IF InsufficientNotice(localDate, startTime, t) THEN Fail("InsufficientNotice", 400)
      ELSE IF workerData.serviceLevels # NoString /\ ~Includes(workerData.serviceLevels, serviceLevel)
        THEN Fail("TierNotOffered", 409)
      ELSE IF Len(windows) = 0 THEN Fail("NotAvailableThisDay", 409)
      ELSE IF ~withinAvailability(windows, startTime, endTime) THEN Fail("OutsideWorkingHours", 409)
      ELSE IF hasConflict(combinedBookings, timeToMinutes(startTime), timeToMinutes(endTime), dateString)
        THEN Fail("SlotConflict", 409)
      ELSE [err |-> "none", status |-> 200, details |-> NoDetails,
            payload |-> Payload(b, workerData, workerId, dateString, serviceLevel, durationMinutes, t)]

(***************************************************************************)
(*                     validateAndSaveBookings                             *)
(***************************************************************************)

\* A loop that validates every occurrence and surfaces the error of the last
\* one that failed.
RECURSIVE ValidateFrom_LastError(_, _, _, _, _, _, _)
ValidateFrom_LastError(occs, i, wk, cl, st, t, prepared) ==
  IF i > Len(occs)
    THEN [err |-> "none", status |-> 200, details |-> NoDetails,
          failIdx |-> 0, prepared |-> prepared]
  ELSE LET r == ValidateOccurrence(occs[i], wk, cl, st, t)
           rest == ValidateFrom_LastError(occs, i + 1, wk, cl, st, t, <<>>)
       IN  IF rest.err # "none" THEN rest
           ELSE IF r.err # "none"
             THEN [err |-> r.err, status |-> r.status, details |-> r.details,
                   failIdx |-> i, prepared |-> prepared]
           ELSE [rest EXCEPT !.prepared = prepared \o <<r.payload>> \o rest.prepared]

\* The validation loop from occurrence i on: the first error with the index
\* of the occurrence that raised it, or err = "none" with every payload.
RECURSIVE ValidateFrom(_, _, _, _, _, _, _)
ValidateFrom(occs, i, wk, cl, st, t, prepared) ==
  IF i > Len(occs)
    THEN [err |-> "none", status |-> 200, details |-> NoDetails,
          failIdx |-> 0, prepared |-> prepared]
  ELSE LET r == ValidateOccurrence(occs[i], wk, cl, st, t)
       IN  IF r.err # "none"
             THEN [err |-> r.err, status |-> r.status, details |-> r.details,
                   failIdx |-> i, prepared |-> prepared]
           ELSE ValidateFrom(occs, i + 1, wk, cl, st, t, Append(prepared, r.payload))

\* set(docRef, payload, {merge: true}): a field the new payload lacks keeps
\* the value of the document already stored.
MergeInto(old, new) ==
  [new EXCEPT !.startTime = IF new.startTime = NoString THEN old.startTime ELSE new.startTime,
              !.endTime = IF new.endTime = NoString THEN old.endTime ELSE new.endTime,
              !.userId = IF new.userId = NoValue THEN old.userId ELSE new.userId]

RECURSIVE BatchCommit_Merge(_, _)
BatchCommit_Merge(st, prepared) ==
  IF prepared = <<>> THEN st
  ELSE LET e == Head(prepared)
       IN  BatchCommit_Merge([i \in DOMAIN st \cup {e.id} |->
                                IF i # e.id THEN st[i]
                                ELSE IF i \in DOMAIN st THEN MergeInto(st[i], e) ELSE e],
                             Tail(prepared))

\* batch.set(docRef, payload) for every prepared entry, then batch.commit():
\* each document is replaced as a whole, a later entry of the batch winning.
RECURSIVE BatchCommit(_, _)
BatchCommit(st, prepared) ==
  IF prepared = <<>> THEN st
  ELSE LET e == Head(prepared)
       IN  BatchCommit([i \in DOMAIN st \cup {e.id} |-> IF i = e.id THEN e ELSE st[i]],
                       Tail(prepared))

\* A persister that replaces the collection by the documents of the batch.
StoreAfter_Fresh(st, out) ==
  IF out.err = "none" THEN BatchCommit(<<>>, out.prepared) ELSE st

\* A persister that writes each occurrence as soon as it passed validation.
StoreAfter_Eager(st, out) == BatchCommit(st, out.prepared)

\* What the call leaves in the bookings collection: the batch is built and
\* committed only after the loop ended without a throw.
StoreAfter(st, out) ==
  IF out.err = "none" THEN BatchCommit(st, out.prepared) ELSE st

\* A recurring seed without a date makes toLocalDate throw a plain Error.
ExpansionThrows(bookings) ==
  \E i \in 1..Len(bookings) :
     bookings[i].recurringPattern # NoRecord /\ bookings[i].date = NoRecord

\* The outcome of the guards at the head of validateAndSaveBookings: the error
\* thrown before the loop, or err = "none" with the expanded occurrences.
\* The argument is [isArray, items]: items is the array when isArray holds.
Prologue(bookings) ==
  IF ~bookings.isArray
    THEN [err |-> "InvalidPayload", status |-> 400, occs |-> <<>>]
  ELSE IF Len(bookings.items) = 0
    THEN [err |-> "NoBookings", status |-> 400, occs |-> <<>>]
  ELSE IF ExpansionThrows(bookings.items)
    THEN [err |-> "InternalError", status |-> 500, occs |-> <<>>]
  ELSE [err |-> "none", status |-> 200, occs |-> expandRecurringBookings(bookings.items)]

(***************************************************************************)
(*                           Available slots                               *)
(***************************************************************************)

\* Minutes east of Greenwich of the zones a server can run in: Toronto in
\* winter, UTC, and central Europe.
ZoneOffsets == {-300, 0, 60}

\* new Date('YYYY-MM-DD') : midnight UTC of that day, as an instant on the
\* wall clock of a server that is zone minutes east of Greenwich.
newDate(ds, zone) == parseLocalDate(ds) * MinutesPerDay + zone

\* The calendar day of an instant on the server's wall clock.
startOfDay(date) == date \div MinutesPerDay

isSameDay(dateLeft, dateRight) == startOfDay(dateLeft) = startOfDay(dateRight)

\* parse(time, 'HH:mm', date) : the minute of the day, or an invalid date for
\* a string that is not two digits, a colon and two digits of a clock time.
parseHHmm(time) ==
  IF /\ Len(time) = 5
     /\ time[3] = ":"
     /\ \A i \in {1, 2, 4, 5} : IsDigit(time[i])
     /\ DigitValue(time[1]) * 10 + DigitValue(time[2]) < 24
     /\ DigitValue(time[4]) < 6
  THEN (DigitValue(time[1]) * 10 + DigitValue(time[2])) * 60
         + DigitValue(time[4]) * 10 + DigitValue(time[5])
  ELSE NaN

\* format(date, 'HH:mm') of minute n of the day.
formatHHmm(n) ==
  <<Digits[((n \div 60) \div 10) + 1], Digits[((n \div 60) % 10) + 1], ":",
    Digits[((n % 60) \div 10) + 1], Digits[((n % 60) % 10) + 1]>>

slotDurationMinutes == 60

\* The while loop of getAvailableSlots over one window, from currentSlotStart.
RECURSIVE SlotsFrom(_, _, _)
SlotsFrom(currentSlotStart, endTime, bookedSlots) ==
  LET slotEnd == currentSlotStart + slotDurationMinutes
      isBooked == \E booked \in bookedSlots :
                     /\ booked.start # NaN /\ booked.end # NaN
                     /\ currentSlotStart < booked.end
                     /\ slotEnd > booked.start
  IN  IF currentSlotStart = NaN \/ endTime = NaN THEN <<>>
      ELSE IF ~(currentSlotStart < endTime) THEN <<>>
      ELSE IF slotEnd > endTime THEN <<>>
      ELSE (IF isBooked THEN <<>>
            ELSE <<[start |-> formatHHmm(currentSlotStart), end |-> formatHHmm(slotEnd)]>>)
           \o SlotsFrom(slotEnd, endTime, bookedSlots)

\* dayAvailability.forEach : the slots of the windows from the i-th on.
RECURSIVE SlotsOfWindows(_, _, _)
SlotsOfWindows(dayAvailability, i, bookedSlots) ==
  IF i > Len(dayAvailability) THEN <<>>
  ELSE SlotsFrom(parseHHmm(dayAvailability[i].startTime),
                 parseHHmm(dayAvailability[i].endTime), bookedSlots)
       \o SlotsOfWindows(dayAvailability, i + 1, bookedSlots)

\* getAvailableSlots(worker, date, existingBookings) on a server in the
\* given zone: date and the dates of the bookings are instants.
getAvailableSlots(worker, date, existingBookings, zone) ==
  LET dayOfWeek == getDay(startOfDay(date))
      dayAvailability ==
        SelectSeq(worker.availability,
                  LAMBDA avail :
                    /\ avail.dayOfWeek = dayOfWeek
                    /\ \/ avail.dateRange = NoRecord
                       \/ /\ newDate(avail.dateRange.start, zone) <= date
                          /\ newDate(avail.dateRange.end, zone) >= date)
      bookedSlots ==
        {[start |-> parseHHmm(booking.startTime), end |-> parseHHmm(booking.endTime)] :
           booking \in {e \in existingBookings : isSameDay(e.date, date)}}
  IN  IF Len(dayAvailability) = 0 THEN <<>>
      ELSE SlotsOfWindows(dayAvailability, 1, bookedSlots)

\* The bookings the availability route reads for a worker and the date of
\* the query string, each with its date made a Date.
existingBookingsOf(st, workerId, dateParam, zone) ==
  {[id |-> data.id, date |-> newDate(data.date, zone),
    startTime |-> data.startTime, endTime |-> data.endTime,
    status |-> IF data.status # NoValue THEN data.status ELSE "confirmed"] :
     data \in QueryBookings(st, workerId, dateParam)}

(***************************************************************************)
(*                  Directory, requests and submissions                    *)
(***************************************************************************)

\* `${String(hour).padStart(2, '0')}:${String(minute).padStart(2, '0')}`
Time(h, m) ==
  <<Digits[(h \div 10) + 1], Digits[(h % 10) + 1], ":",
    Digits[(m \div 10) + 1], Digits[(m % 10) + 1]>>

Jan(d) == [y |-> 2025, m |-> 1, d |-> d]

\* The days requests are made for: a Monday, the Tuesday after it, and the
\* Monday one week later.
Monday == Jan(13)

Tuesday == Jan(14)

NextMonday == Jan(20)

Window(dayOfWeek, startTime, endTime, dateRange) ==
  [dayOfWeek |-> dayOfWeek, startTime |-> startTime, endTime |-> endTime,
   dateRange |-> dateRange]

\* The flow's identifier `${dateStr}_${timeStr}_${worker.id}`.
FlowId(date, startTime, workerId) ==
  [date |-> date, time |-> ReplaceFirst(startTime, ":", "-"), worker |-> workerId]

\* A booking already embedded in a worker record.
EmbeddedBooking(workerId, date, startTime, endTime, status) ==
  [id |-> FlowId(date, startTime, workerId), date |-> date,
   startTime |-> startTime, endTime |-> endTime, status |-> status]

\* w1 works Mondays 08:00-17:00 and offers two tiers.  w2, in the same city
\* written differently, works Mondays in two adjacent windows and Tuesdays
\* in a window that is only effective from 20 to 27 January; a confirmed
\* Monday visit 11:00-12:00 is embedded in its record.  w3 has no location.
WorkerDirectory ==
  [w \in {"w1", "w2", "w3"} |->
     CASE w = "w1" ->
            [location |-> <<"T", "o">>, hourlyRate |-> 20,
             serviceLevels |-> <<"basic", "enhanced">>,
             availability |-> <<Window(1, Time(8, 0), Time(17, 0), NoRecord)>>,
             bookings |-> <<>>]
       [] w = "w2" ->
            [location |-> <<" ", "t", "O", " ">>, hourlyRate |-> 25,
             serviceLevels |-> NoString,
             availability |->
               <<Window(1, Time(8, 0), Time(10, 0), NoRecord),
                 Window(1, Time(10, 0), Time(12, 0), NoRecord),
                 Window(2, Time(8, 0), Time(17, 0), [start |-> Jan(20), end |-> Jan(27)])>>,
             bookings |-> <<EmbeddedBooking("w2", Monday, Time(11, 0), Time(12, 0), "confirmed")>>]
       [] OTHER ->
            [location |-> NoString, hourlyRate |-> 30,
             serviceLevels |-> NoString,
             availability |-> <<Window(1, Time(8, 0), Time(17, 0), NoRecord)>>,
             bookings |-> <<>>]]

\* c1 lives in the city of w1 and w2, c2 elsewhere, c3 has a blank location.
ClientDirectory ==
  [c \in {"c1", "c2", "c3"} |->
     CASE c = "c1" -> [location |-> <<"t", "o">>]
       [] c = "c2" -> [location |-> <<"O", "t">>]
       [] OTHER    -> [location |-> <<" ">>]]

\* makeBookingPayload of the booking flow; timestamps are left to the server.
Request(workerId, clientId, date, startTime, endTime, status, pattern) ==
  [id |-> FlowId(date, startTime, workerId),
   clientId |-> clientId, pswWorkerId |-> workerId, userId |-> NoValue,
   date |-> date, startTime |-> startTime, endTime |-> endTime,
   serviceLevel |-> NoValue, price |-> NoNumber, status |-> status,
   recurringPattern |-> pattern,
   requestedAt |-> NoNumber, confirmationDeadline |-> NoNumber, createdAt |-> NoNumber]

\* buildRecurringPattern
Pattern(frequency, startDate, endDate, daysOfWeek) ==
  [frequency |-> frequency, startDate |-> startDate, endDate |-> endDate,
   daysOfWeek |-> daysOfWeek]

Slot(h1, m1, h2, m2) == <<Time(h1, m1), Time(h2, m2)>>

NoPattern == NoRecord

Array(items) == [isArray |-> TRUE, items |-> items]

\* One-hour and overlapping visits on the morning of a working Monday.
MorningSlots == {Slot(9, 0, 10, 0), Slot(9, 30, 10, 30), Slot(10, 0, 11, 0)}

\* Requests that can share one submission.
BatchRequests ==
  {Request("w1", "c1", Monday, sl[1], sl[2], "pending", NoPattern) : sl \in MorningSlots}
  \cup {Request("w1", "c2", Monday, Time(9, 0), Time(10, 0), "pending", NoPattern)}

\* Submissions of the store specification: single visits of w1 and w2, some
\* already cancelled, series of two days or two weeks, and pairs of visits.
StoreSubmissions ==
  {Array(<<Request("w1", "c1", Monday, sl[1], sl[2], st, NoPattern)>>) :
     sl \in MorningSlots, st \in {"pending", "cancelled"}}
  \cup {Array(<<Request("w2", "c1", Monday, Time(9, 0), Time(10, 0), "pending", NoPattern)>>),
        Array(<<Request("w1", "c1", Tuesday, Time(9, 0), Time(10, 0), "pending", NoPattern)>>),
        Array(<<Request("w1", "c1", Monday, Time(9, 0), Time(10, 0), "pending",
                        Pattern("daily", Monday, Tuesday, <<>>))>>),
        Array(<<Request("w1", "c1", Monday, Time(10, 0), Time(11, 0), "pending",
                        Pattern("weekly", Monday, NextMonday, <<>>))>>)}
  \cup {Array(<<a, b>>) : a \in BatchRequests, b \in BatchRequests}

\* The second Tuesday, inside the effective range of w2's Tuesday window.
NextTuesday == Jan(21)

\* Visits before, at the edge of, inside and across working windows, and one
\* that ends before it starts.
PolicySlots ==
  {Slot(7, 0, 8, 0), Slot(8, 0, 9, 0), Slot(9, 0, 10, 0), Slot(9, 0, 11, 0), Slot(10, 0, 9, 0)}

\* Submissions of the policy specification: every pairing of a worker and a
\* client, known or not, for one visit; visits of w1 and w2 on four days at
\* the policy slots; a tier w1 does not offer; and malformed payloads.
PolicySubmissions ==
  {Array(<<Request(w, c, NextMonday, Time(9, 0), Time(10, 0), "pending", NoPattern)>>) :
     w \in {"w1", "w2", "w3", "w9"}, c \in {"c1", "c2", "c3", "c9"}}
  \cup {Array(<<Request(w, "c1", d, sl[1], sl[2], "pending", NoPattern)>>) :
          w \in {"w1", "w2"}, d \in {Monday, Tuesday, NextMonday, NextTuesday},
          sl \in PolicySlots}
  \cup {Array(<<[Request("w1", "c1", NextMonday, Time(9, 0), Time(10, 0), "pending", NoPattern)
                  EXCEPT !.serviceLevel = "premium"]>>),
        Array(<<[Request("w1", "c1", NextMonday, Time(9, 0), Time(10, 0), "pending", NoPattern)
                  EXCEPT !.id = NoRecord]>>),
        Array(<<>>),
        [isArray |-> FALSE, items |-> <<>>]}

\* Requests that break several rules at once: each field is taken right or
\* wrong independently of the others.
OrderRequests ==
  {[Request(w, c, d, sl[1], sl[2], "pending", NoPattern)
      EXCEPT !.id = IF hasId THEN @ ELSE NoRecord, !.serviceLevel = level] :
     hasId \in BOOLEAN,
     w \in {"w1", "w2", "w9", NoValue},
     c \in {"c1", "c2", "c9", NoValue},
     d \in {Monday, NextMonday, NextTuesday, NoRecord},
     sl \in {Slot(11, 0, 12, 0), Slot(12, 0, 11, 0), Slot(7, 0, 8, 0)},
     level \in {NoValue, "premium"}}

\* Requests failing at four different checks, and one that passes, to pair.
OrderPairRequests ==
  {Request("w1", "c1", NextMonday, Time(11, 0), Time(12, 0), "pending", NoPattern),
   Request("w9", "c1", NextMonday, Time(11, 0), Time(12, 0), "pending", NoPattern),
   Request("w1", "c2", NextMonday, Time(11, 0), Time(12, 0), "pending", NoPattern),
   Request("w1", "c1", NextTuesday, Time(11, 0), Time(12, 0), "pending", NoPattern),
   Request("w2", "c1", Monday, Time(11, 0), Time(12, 0), "pending", NoPattern)}

OrderSubmissions ==
  {Array(<<b>>) : b \in OrderRequests}
  \cup {Array(<<a, b>>) : a \in OrderPairRequests, b \in OrderPairRequests}

\* A day of 2025.
Day(m, d) == [y |-> 2025, m |-> m, d |-> d]

\* The first selected date of a recurring series: two Mondays, a Wednesday,
\* and the last two days of January.
SeriesAnchors == {Day(1, 6), Monday, Day(1, 15), Day(1, 30), Day(1, 31)}

\* The end dates of a series: before every anchor, the day after the second
\* Monday, later in January, in February, and at the end of March.
SeriesEnds == {Day(1, 3), Day(1, 14), Day(1, 27), Day(2, 12), Day(3, 31)}

\* recurrenceDaysOfWeek: none selected, Monday, Monday and Wednesday, Sunday
\* and Friday.
SeriesWeekdays == {<<>>, <<1>>, <<1, 3>>, <<0, 5>>}

SeriesFrequencies == {"daily", "weekly", "biweekly", "monthly"}

\* One seed request carrying a recurrence descriptor.
SeriesSubmissions ==
  {Array(<<Request("w1", "c1", a, Time(9, 0), Time(10, 0), "pending",
                   Pattern(f, a, e, ws))>>) :
     f \in SeriesFrequencies, a \in SeriesAnchors, e \in SeriesEnds,
     ws \in SeriesWeekdays}

\* The visits the dashboards show: requests of c1 with w1 and with w2.
DashboardRequests ==
  {Request("w1", "c1", d, sl[1], sl[2], "pending", NoPattern) :
     d \in {Monday, NextMonday}, sl \in MorningSlots}
  \cup {Request("w2", "c1", d, sl[1], sl[2], "pending", NoPattern) :
          d \in {Monday, NextMonday}, sl \in {Slot(8, 0, 9, 0), Slot(9, 0, 10, 0)}}

\* The statuses the dashboards ask for: accept, decline, cancel.
DashboardStatuses == {"confirmed", "rejected", "cancelled"}

\* The booking a dashboard posts to change a status: the identifier and the
\* new status, every other field absent.
StatusUpdate(id, status) ==
  [id |-> id,
   clientId |-> NoValue, pswWorkerId |-> NoValue, userId |-> NoValue,
   date |-> NoRecord, startTime |-> NoString, endTime |-> NoString,
   serviceLevel |-> NoValue, price |-> NoNumber, status |-> status,
   recurringPattern |-> NoPattern,
   requestedAt |-> NoNumber, confirmationDeadline |-> NoNumber, createdAt |-> NoNumber]

\* What the booking flow and the dashboards post: a visit, or a new status
\* for a visit.
DashboardSubmissions ==
  {Array(<<b>>) : b \in DashboardRequests}
  \cup {Array(<<StatusUpdate(b.id, status)>>) :
          b \in DashboardRequests, status \in DashboardStatuses}

\* `${dateString}_${startTime.replace(':', '-')}_UTC`: the identifier the
\* book-with-worker route gives a booking.
RouteId(date, startTime) ==
  [date |-> date, time |-> ReplaceFirst(startTime, ":", "-"), worker |-> "UTC"]

\* bookingPayload of the book-with-worker route.
RouteRequest(workerId, clientId, date, startTime, endTime) ==
  [Request(workerId, clientId, date, startTime, endTime, "confirmed", NoPattern)
     EXCEPT !.id = RouteId(date, startTime)]

\* Visits of c1 with w1 or w2, asked for through the booking flow or through
\* the book-with-worker route.
PathSubmissions ==
  {Array(<<Request(w, "c1", d, sl[1], sl[2], "pending", NoPattern)>>) :
     w \in {"w1", "w2"}, d \in {Monday, NextMonday},
     sl \in {Slot(9, 0, 10, 0), Slot(9, 30, 10, 30)}}
  \cup {Array(<<RouteRequest(w, "c1", d, sl[1], sl[2])>>) :
          w \in {"w1", "w2"}, d \in {Monday, NextMonday},
          sl \in {Slot(9, 0, 10, 0), Slot(9, 30, 10, 30)}}

\* What a request can carry as a start or an end time: nothing, the empty
\* string, well-formed times, and strings that are no HH:MM time.
TimeStrings ==
  {NoString, <<>>, Time(8, 30), Time(9, 0), Time(10, 0),
   <<"a", "b", "c">>, <<"9">>, <<"2", "5", ":", "9", "9">>}

\* Visits of c1 with w1 on a Monday, with every pair of time strings.
TimeSubmissions ==
  {Array(<<Request("w1", "c1", d, s, e, "pending", NoPattern)>>) :
     d \in {Monday, NextMonday}, s \in TimeStrings, e \in TimeStrings}

\* Visits of 7, 45, 50, 60 and 90 minutes.
PricedSlots ==
  {Slot(9, 0, 9, 7), Slot(9, 0, 9, 45), Slot(9, 0, 9, 50), Slot(9, 0, 10, 0),
   Slot(9, 0, 10, 30)}

\* The price a request carries, in cents: none, zero, or 12.34.
RequestPrices == {NoNumber, 0, 1234}

\* Visits of c1 with w1 (20 an hour) or w2 (25 an hour), of every length,
\* tier and price.
PriceSubmissions ==
  {Array(<<[Request(w, "c1", NextMonday, sl[1], sl[2], "pending", NoPattern)
              EXCEPT !.serviceLevel = level, !.price = price]>>) :
     w \in {"w1", "w2"}, sl \in PricedSlots,
     level \in {NoValue, "basic", "enhanced", "premium"}, price \in RequestPrices}

\* Locations as records hold them: a city in two spellings, an address with
\* a street part, a city with a province written with and without a space,
\* another city, blank, a lone comma, empty, and none.
Locations ==
  {<<"T", "o">>, <<" ", "t", "O", " ">>,
   <<"1", " ", "o", ",", " ", "T", "o">>,
   <<"T", "o", ",", "O", "t">>, <<"T", "o", ",", " ", "O", "t">>,
   <<"O", "t">>, <<" ">>, <<",">>, <<>>, NoString}

\* A visit of c1 with w1 that breaks no rule other than, possibly, the
\* location rule.
CityRequest ==
  Request("w1", "c1", NextMonday, Time(9, 0), Time(10, 0), "pending", NoPattern)

\* Seeds whose date and whose descriptor's start date are chosen apart.
AnchorSubmissions ==
  {Array(<<Request("w1", "c1", d, Time(9, 0), Time(10, 0), "pending",
                   Pattern(f, sd, e, ws))>>) :
     f \in SeriesFrequencies, d \in {Monday, Day(1, 15)},
     sd \in {Day(1, 6), Monday, Day(1, 15), NextMonday},
     e \in {Day(1, 27), Day(2, 12)}, ws \in {<<>>, <<1>>, <<1, 3>>}}

(***************************************************************************)
(*                            State machine                                *)
(***************************************************************************)

VARIABLES workers, clients, store, now, calls, ticks, proc, result, found, offered

vars == <<workers, clients, store, now, calls, ticks, proc, result, found, offered>>

\* Requests in flight: the two callers of the submission endpoint.
Procs == {"p1", "p2"}

\* The caller of the sequential specifications.
Caller == "p1"

MaxCalls == 2

\* The submission instant of the first call: Sunday 12 January, 08:30.
InitNow == parseLocalDate(Jan(12)) * MinutesPerDay + timeToMinutes(Time(8, 30))

IdleProc == [pc |-> "idle", at |-> 0, occs |-> <<>>, idx |-> 0, prepared |-> <<>>]

\* No payload: what a call that is not recorded was made with.
NoRequest == [isArray |-> FALSE, items |-> <<>>]

NoResult ==
  [called |-> FALSE, at |-> 0, input |-> <<>>, err |-> "none", status |-> 0,
   details |-> NoDetails, failIdx |-> 0, count |-> 0, written |-> <<>>,
   request |-> NoRequest]

\* No search made yet.
NoSearch == [searched |-> FALSE, client |-> NoValue, ids |-> {}]

\* No availability query answered yet.
NoOffer ==
  [asked |-> FALSE, worker |-> NoValue, date |-> NoRecord, zone |-> 0, slots |-> <<>>]

Init ==
  /\ workers = WorkerDirectory
  /\ clients = ClientDirectory
  /\ store = <<>>
  /\ now = InitNow
  /\ calls = 0
  /\ ticks = 0
  /\ proc = [p \in Procs |-> IdleProc]
  /\ result = [p \in Procs |-> NoResult]
  /\ found = NoSearch
  /\ offered = NoOffer

\* What validateAndSaveBookings throws or returns, as the route sees it,
\* with the submission instant, the expanded occurrences and the payloads
\* handed to the batch.
Outcome(t, occs, err, status, details, failIdx, prepared) ==
  [called |-> TRUE, at |-> t, input |-> occs, err |-> err, status |-> status,
   details |-> details, failIdx |-> failIdx,
   count |-> IF err = "none" THEN Len(occs) ELSE 0,
   written |-> IF err = "none" THEN prepared ELSE <<>>,
   request |-> NoRequest]

\* validateAndSaveBookings(bookings) run from its first line to its return
\* or throw with no other request in between.
Handle(bookings) ==
  /\ \A p \in Procs : proc[p].pc = "idle"
  /\ LET pro == Prologue(bookings)
         out == ValidateFrom(pro.occs, 1, workers, clients, store, now, <<>>)
     IN  IF pro.err # "none"
           THEN /\ store' = store
                /\ result' = [result EXCEPT ![Caller] =
                                [Outcome(now, pro.occs, pro.err, pro.status, NoDetails, 0, <<>>)
                                   EXCEPT !.request = bookings]]
         ELSE /\ store' = StoreAfter(store, out)
              /\ result' = [result EXCEPT ![Caller] =
                              [Outcome(now, pro.occs, out.err, out.status, out.details,
                                       out.failIdx, out.prepared)
                                 EXCEPT !.request = bookings]]
  /\ calls' = calls + 1
  /\ UNCHANGED <<workers, clients, now, ticks, proc, found, offered>>

\* A submission of the booking flow.
Call(bookings) == calls < MaxCalls /\ Handle(bookings)

Next == \E bookings \in StoreSubmissions : Call(bookings)

Spec == Init /\ [][Next]_vars

MaxTicks == 2

\* Half an hour.
TickMinutes == timeToMinutes(Time(0, 30))

\* Time passes between two requests.
Tick ==
  /\ ticks < MaxTicks
  /\ \A p \in Procs : proc[p].pc = "idle"
  /\ now' = now + TickMinutes
  /\ ticks' = ticks + 1
  /\ UNCHANGED <<workers, clients, store, calls, proc, result, found, offered>>

MaxPolicyCalls == 1

\* A submission made to probe the validation policies.
PolicyCall(bookings) == calls < MaxPolicyCalls /\ Handle(bookings)

NextPolicy == (\E bookings \in PolicySubmissions : PolicyCall(bookings)) \/ Tick

SpecPolicy == Init /\ [][NextPolicy]_vars

\* Submissions of the concurrent specification: visits of w1 on one Monday
\* morning.  Three of them start at 09:00 and so share an identifier, with
\* different end times and statuses, one of them leaving the end time out;
\* one overlaps them under another identifier; one is for a client of
\* another city.
ConcurrentSubmissions ==
  {Array(<<Request("w1", "c1", Monday, Time(9, 0), Time(10, 0), "pending", NoPattern)>>),
   Array(<<Request("w1", "c1", Monday, Time(9, 0), NoString, "confirmed", NoPattern)>>),
   Array(<<Request("w1", "c1", Monday, Time(9, 0), Time(11, 0), "pending", NoPattern)>>),
   Array(<<Request("w1", "c1", Monday, Time(9, 30), Time(10, 30), "pending", NoPattern)>>),
   Array(<<Request("w1", "c1", Monday, Time(11, 0), Time(12, 0), "pending", NoPattern),
           Request("w1", "c2", Monday, Time(12, 0), Time(13, 0), "pending", NoPattern)>>)}

MaxConcurrentCalls == 2

\* The first submission made to a freshly started server.
FirstCall(bookings) == ~result[Caller].called /\ Handle(bookings)

NextOrder == \E bookings \in OrderSubmissions : FirstCall(bookings)

SpecOrder == Init /\ [][NextOrder]_vars

NextExpand == \E bookings \in SeriesSubmissions : FirstCall(bookings)

SpecExpand == Init /\ [][NextExpand]_vars

\* A post of the booking flow, or of a dashboard for a booking it shows: the
\* dashboards list the bookings of the collection.
DashboardCall(bookings) ==
  /\ bookings.items[1].date = NoRecord => bookings.items[1].id \in DOMAIN store
  /\ Call(bookings)

NextDashboard == \E bookings \in DashboardSubmissions : DashboardCall(bookings)

SpecDashboard == Init /\ [][NextDashboard]_vars

NextPaths == \E bookings \in PathSubmissions : Call(bookings)

SpecPaths == Init /\ [][NextPaths]_vars

NextTimes == \E bookings \in TimeSubmissions : FirstCall(bookings)

SpecTimes == Init /\ [][NextTimes]_vars

NextPrice == \E bookings \in PriceSubmissions : FirstCall(bookings)

SpecPrice == Init /\ [][NextPrice]_vars

\* The directory with any location for w1 and for c1.
InitCities ==
  /\ \E wl \in Locations, cl \in Locations :
        /\ workers = [WorkerDirectory EXCEPT !["w1"].location = wl]
        /\ clients = [ClientDirectory EXCEPT !["c1"].location = cl]
  /\ store = <<>>
  /\ now = InitNow
  /\ calls = 0
  /\ ticks = 0
  /\ proc = [p \in Procs |-> IdleProc]
  /\ result = [p \in Procs |-> NoResult]
  /\ found = NoSearch
  /\ offered = NoOffer

\* The workers of the city of client c are searched.
Search(c) ==
  /\ ~found.searched
  /\ found' = [searched |-> TRUE, client |-> c,
               ids |-> searchWorkers(workers, Filters(clients[c].location, TRUE))]
  /\ UNCHANGED <<workers, clients, store, now, calls, ticks, proc, result, offered>>

\* A search for c1, or the booking of w1 by c1.
CityStep(search) ==
  IF search THEN Search("c1") ELSE FirstCall(Array(<<CityRequest>>))

NextCities == \E search \in BOOLEAN : CityStep(search)

SpecCities == InitCities /\ [][NextCities]_vars

NextAnchor == \E bookings \in AnchorSubmissions : FirstCall(bookings)

SpecAnchor == Init /\ [][NextAnchor]_vars

\* The bookkeeping instants a request can carry: none, or an instant some
\* hours around the submission.
RequestedInstants == {NoNumber, InitNow - 600, InitNow - 60}

DeadlineInstants == {NoNumber, InitNow + 60, InitNow + 660}

CreatedInstants == {NoNumber, InitNow - 60}

\* Visits of c1 with w1 carrying any of the bookkeeping fields, with and
\* without a status.
StampSubmissions ==
  {Array(<<[Request("w1", "c1", NextMonday, sl[1], sl[2], st, NoPattern)
              EXCEPT !.requestedAt = ra, !.confirmationDeadline = cd, !.createdAt = ca]>>) :
     sl \in {Slot(9, 0, 10, 0), Slot(10, 0, 11, 0)},
     st \in {NoValue, "pending", "confirmed"},
     ra \in RequestedInstants, cd \in DeadlineInstants, ca \in CreatedInstants}

NextStamps == \E bookings \in StampSubmissions : FirstCall(bookings)

SpecStamps == Init /\ [][NextStamps]_vars

\* Visits asked of a worker before its slots are offered.
SlotVisits == {Slot(9, 0, 10, 0), Slot(9, 30, 10, 30), Slot(11, 0, 12, 0)}

\* What client c1 does with worker w1 or w2 on two Mondays and two
\* Tuesdays: book a visit, or ask the availability route for the slots of
\* the day, answered by a server in one of the zones.
SlotQueries ==
  {[offer |-> o, worker |-> w, date |-> d, zone |-> z, slot |-> sl] :
     o \in BOOLEAN, w \in {"w1", "w2"},
     d \in {Monday, Tuesday, NextMonday, NextTuesday},
     z \in ZoneOffsets, sl \in SlotVisits}

\* The directory in which no worker record embeds a booking.
InitSlots ==
  /\ workers = [WorkerDirectory EXCEPT !["w2"].bookings = <<>>]
  /\ clients = ClientDirectory
  /\ store = <<>>
  /\ now = InitNow
  /\ calls = 0
  /\ ticks = 0
  /\ proc = [p \in Procs |-> IdleProc]
  /\ result = [p \in Procs |-> NoResult]
  /\ found = NoSearch
  /\ offered = NoOffer

\* GET /api/psw-workers/[id]/availability?date=dateParam on a server in the
\* given zone, for a worker of the directory.
Availability(workerId, dateParam, zone) ==
  /\ ~offered.asked
  /\ workerId \in DOMAIN workers
  /\ LET targetDate == newDate(dateParam, zone)
         existingBookings == existingBookingsOf(store, workerId, dateParam, zone)
     IN  offered' = [asked |-> TRUE, worker |-> workerId, date |-> dateParam,
                     zone |-> zone,
                     slots |-> getAvailableSlots(workers[workerId], targetDate,
                                                 existingBookings, zone)]
  /\ UNCHANGED <<workers, clients, store, now, calls, ticks, proc, result, found>>

\* A visit is booked before any slot was offered, or the slots are offered.
SlotStep(q) ==
  IF q.offer THEN Availability(q.worker, q.date, q.zone)
  ELSE /\ ~offered.asked
       /\ FirstCall(Array(<<Request(q.worker, "c1", q.date, q.slot[1], q.slot[2],
                                    "pending", NoPattern)>>))

NextSlots == \E q \in SlotQueries : SlotStep(q)

SpecSlots == InitSlots /\ [][NextSlots]_vars

\* Request p enters validateAndSaveBookings: the guards on the payload and
\* the expansion, up to the first await of the loop.
Submit(p, bookings) ==
  /\ calls < MaxConcurrentCalls
  /\ proc[p].pc = "idle"
  /\ calls' = calls + 1
  /\ LET pro == Prologue(bookings)
     IN  IF pro.err # "none"
           THEN /\ result' = [result EXCEPT ![p] =
                                Outcome(now, pro.occs, pro.err, pro.status, NoDetails, 0, <<>>)]
                /\ proc' = proc
         ELSE /\ proc' = [proc EXCEPT ![p] =
                            [pc |-> "validating", at |-> now, occs |-> pro.occs,
                             idx |-> 1, prepared |-> <<>>]]
              /\ result' = [result EXCEPT ![p] = NoResult]
  /\ UNCHANGED <<workers, clients, store, now, ticks, found, offered>>

\* One pass of the loop body for request p: the reads of the worker, the
\* client and the bookings of that worker and date, and the checks on them.
Validate(p) ==
  /\ proc[p].pc = "validating"
  /\ proc[p].idx <= Len(proc[p].occs)
  /\ LET r == ValidateOccurrence(proc[p].occs[proc[p].idx], workers, clients, store, now)
     IN  IF r.err # "none"
           THEN /\ proc' = [proc EXCEPT ![p] = IdleProc]
                /\ result' = [result EXCEPT ![p] =
                                Outcome(proc[p].at, proc[p].occs, r.err, r.status, r.details,
                                        proc[p].idx, <<>>)]
         ELSE /\ proc' = [proc EXCEPT ![p].idx = @ + 1,
                                      ![p].prepared = Append(@, r.payload)]
              /\ result' = result
  /\ UNCHANGED <<workers, clients, store, now, calls, ticks, found, offered>>

\* The batch of request p is committed and the call returns its count.
Commit(p) ==
  /\ proc[p].pc = "validating"
  /\ proc[p].idx > Len(proc[p].occs)
  /\ store' = BatchCommit(store, proc[p].prepared)
  /\ result' = [result EXCEPT ![p] =
                  Outcome(proc[p].at, proc[p].occs, "none", 200, NoDetails, 0, proc[p].prepared)]
  /\ proc' = [proc EXCEPT ![p] = IdleProc]
  /\ UNCHANGED <<workers, clients, now, calls, ticks, found, offered>>

NextConcurrent ==
  \E p \in Procs :
     \/ \E bookings \in ConcurrentSubmissions : Submit(p, bookings)
     \/ Validate(p)
     \/ Commit(p)

SpecConcurrent == Init /\ [][NextConcurrent]_vars

(***************************************************************************)
(*                  Properties of the bookings collection                  *)
(***************************************************************************)

StartMinutes(b) == timeToMinutes(StartTimeOf(b))

EndMinutes(b) == timeToMinutes(EndTimeOf(b))

Intersect(a, b) ==
  StartMinutes(a) < EndMinutes(b) /\ EndMinutes(a) > StartMinutes(b)

\* A step that is one whole call of validateAndSaveBookings by the caller.
CallStep == calls' = calls + 1 /\ result'[Caller].called

\* C1: a submission in which some occurrence fails validation leaves the
\* bookings collection exactly as it was, whatever the other occurrences of
\* the submission are.
C1_AllOrNothing ==
  [][(CallStep /\ result'[Caller].err # "none") => store' = store]_vars

\* A submission failed at its second occurrence after a valid first one, and
\* the collection holds nothing of it.
C1_Witness ==
  /\ result[Caller].called
  /\ result[Caller].failIdx = 2
  /\ result[Caller].input[1].id \notin DOMAIN store

\* C2: no two bookings of the collection that are not cancelled, of the
\* same worker and date, have intersecting time ranges.
C2_NoOverlapInStore ==
  \A i \in DOMAIN store : \A j \in DOMAIN store :
     (/\ i # j
      /\ store[i].pswWorkerId = store[j].pswWorkerId
      /\ store[i].date = store[j].date
      /\ store[i].status # "cancelled"
      /\ store[j].status # "cancelled")
     => ~Intersect(store[i], store[j])

\* The bookings a conflict check of worker workerId on dateString can meet:
\* the documents of the collection and the bookings embedded in the worker
\* record, as [id, start, end, status] with the times in minutes.
ExistingOf(st, wk, workerId, dateString) ==
  {[id |-> i, start |-> StartMinutes(st[i]), end |-> EndMinutes(st[i]), status |-> st[i].status] :
     i \in {j \in DOMAIN st : st[j].pswWorkerId = workerId /\ st[j].date = dateString}}
  \cup
  {[id |-> wk[workerId].bookings[n].id,
    start |-> StartMinutes(wk[workerId].bookings[n]),
    end |-> EndMinutes(wk[workerId].bookings[n]),
    status |-> wk[workerId].bookings[n].status] :
     n \in {m \in 1..Len(wk[workerId].bookings) : wk[workerId].bookings[m].date = dateString}}

\* Occurrence k of the call with outcome r came as far as the conflict check.
ReachedConflictStep(r, k) ==
  r.err = "none" \/ k < r.failIdx \/ (k = r.failIdx /\ r.err = "SlotConflict")

RejectedAt(r, k, kind) == k = r.failIdx /\ r.err = kind

\* C5: an occurrence that reached the conflict check is rejected with
\* SlotConflict, status 409, exactly when an existing booking of its worker
\* and date has newStart < existingEnd and newEnd > existingStart; a booking
\* that only shares a boundary does not reject it.
C5_ConflictRule ==
  [][CallStep =>
       LET r == result'[Caller]
       IN  \A k \in 1..Len(r.input) :
              ReachedConflictStep(r, k) =>
                ((RejectedAt(r, k, "SlotConflict") /\ r.status = 409)
                 <=> \E e \in ExistingOf(store, workers, WorkerIdOf(r.input[k]), r.input[k].date) :
                        /\ StartMinutes(r.input[k]) < e.end
                        /\ EndMinutes(r.input[k]) > e.start)]_vars

\* A visit was accepted that starts at the minute an earlier booking of the
\* same worker and date ends.
C5_Witness ==
  /\ result[Caller].called /\ result[Caller].err = "none"
  /\ \E k \in 1..Len(result[Caller].input) : \E i \in DOMAIN store :
        /\ \A n \in 1..Len(result[Caller].written) : result[Caller].written[n].id # i
        /\ store[i].pswWorkerId = WorkerIdOf(result[Caller].input[k])
        /\ store[i].date = result[Caller].input[k].date
        /\ EndMinutes(store[i]) = StartMinutes(result[Caller].input[k])

\* C6: a submission is rejected with SlotConflict only if its failing
\* occurrence intersects a booking of that worker and date that is not
\* cancelled.
C6_CancelledIgnored ==
  (result[Caller].called /\ result[Caller].err = "SlotConflict") =>
    LET b == result[Caller].input[result[Caller].failIdx]
    IN  \E e \in ExistingOf(store, workers, WorkerIdOf(b), b.date) :
           /\ e.status # "cancelled"
           /\ StartMinutes(b) < e.end
           /\ EndMinutes(b) > e.start

(***************************************************************************)
(*                  Properties of the validation policies                  *)
(***************************************************************************)

\* The checks of the loop body in the order the code makes them.
Steps ==
  <<"MissingId", "MissingDate", "MissingWorker", "MissingClient", "WorkerNotFound",
    "ClientNotFound", "LocationMismatch", "InvalidTimeRange", "InsufficientNotice",
    "TierNotOffered", "NotAvailableThisDay", "OutsideWorkingHours", "SlotConflict">>

StepNo(kind) == CHOOSE n \in 1..Len(Steps) : Steps[n] = kind

\* Occurrence k of the call with outcome r came as far as the check that
\* raises kind: it passed every check, or failed at that check or a later one.
Reached(r, k, kind) ==
  \/ r.err = "none"
  \/ k < r.failIdx
  \/ k = r.failIdx /\ StepNo(r.err) >= StepNo(kind)

Occurrences(r) == 1..Len(r.input)

WorkerOf(b) == workers[WorkerIdOf(b)]

ClientOf(b) == clients[b.clientId]

TrimmedLower(location) == ToLowerCase(Trim(IF location = NoString THEN <<>> ELSE location))

\* C7 as stated: an occurrence whose worker and client exist is rejected with
\* LocationMismatch exactly when the trimmed, lower-cased locations differ.
C7_MismatchIffDifferent ==
  LET r == result[Caller]
  IN  \A k \in Occurrences(r) :
         Reached(r, k, "LocationMismatch") =>
           (RejectedAt(r, k, "LocationMismatch")
            <=> TrimmedLower(WorkerOf(r.input[k]).location)
                  # TrimmedLower(ClientOf(r.input[k]).location))

\* C7 amended: an occurrence whose worker and client exist is rejected with
\* LocationMismatch, status 409 and the two locations as details, exactly
\* when a trimmed, lower-cased location is empty or the two differ; equal
\* non-empty normalized locations pass.
C7_MismatchIffDifferentOrEmpty ==
  LET r == result[Caller]
  IN  \A k \in Occurrences(r) :
         Reached(r, k, "LocationMismatch") =>
           LET wl == WorkerOf(r.input[k]).location
               cl == ClientOf(r.input[k]).location
           IN  /\ RejectedAt(r, k, "LocationMismatch")
                    <=> (\/ TrimmedLower(wl) = <<>>
                         \/ TrimmedLower(cl) = <<>>
                         \/ TrimmedLower(wl) # TrimmedLower(cl))
               /\ RejectedAt(r, k, "LocationMismatch") =>
                    /\ r.status = 409
                    /\ r.details = [workerLocation |-> IF wl = <<>> THEN NoString ELSE wl,
                                    clientLocation |-> IF cl = <<>> THEN NoString ELSE cl]

\* A booking passed the location check although the two locations are
\* written differently.
C7_Witness ==
  LET r == result[Caller]
  IN  /\ r.called /\ r.err = "none"
      /\ WorkerOf(r.input[1]).location # ClientOf(r.input[1]).location

StartInstant(b) == toLocalDate(b.date) * 1440 + StartMinutes(b)

\* C8: an occurrence that reached the lead-time check is rejected with
\* InsufficientNotice exactly when it starts less than 24 hours after the
\* submission instant, and every stored booking starts at least 24 hours
\* after the instant it was requested.
C8_LeadTime ==
  LET r == result[Caller]
  IN  /\ \A k \in Occurrences(r) :
            Reached(r, k, "InsufficientNotice") =>
              (RejectedAt(r, k, "InsufficientNotice")
               <=> StartInstant(r.input[k]) - r.at < 1440)
      /\ \A i \in DOMAIN store : StartInstant(store[i]) - store[i].requestedAt >= 1440

\* A visit that starts exactly 24 hours after its submission was stored.
C8_Witness ==
  LET r == result[Caller]
  IN  /\ r.called /\ r.err = "none"
      /\ StartInstant(r.input[1]) - r.at = 1440
      /\ r.input[1].id \in DOMAIN store

\* The windows of the worker of b on the weekday of its date.
DayWindows(b) ==
  {n \in 1..Len(WorkerOf(b).availability) :
     WorkerOf(b).availability[n].dayOfWeek = getDay(toLocalDate(b.date))}

InsideWindow(b, n) ==
  /\ StartMinutes(b) >= timeToMinutes(WorkerOf(b).availability[n].startTime)
  /\ EndMinutes(b) <= timeToMinutes(WorkerOf(b).availability[n].endTime)

OnlyRequest(r, workerId, date, sl) ==
  /\ r.called
  /\ r.input = <<Request(workerId, "c1", date, sl[1], sl[2], "pending", NoPattern)>>
  /\ Reached(r, 1, "NotAvailableThisDay")

\* C9: an occurrence that reached the availability check fails with
\* NotAvailableThisDay when no window of the worker is on the weekday of the
\* date, and otherwise fails with OutsideWorkingHours exactly when no single
\* window of that weekday contains it.  With Monday 08:00-17:00: Monday
\* 09:00-10:00 passes, Tuesday 09:00-10:00 is NotAvailableThisDay, Monday
\* 07:00-08:00 is OutsideWorkingHours.
C9_WorkingDayAndHours ==
  LET r == result[Caller]
  IN  /\ \A k \in Occurrences(r) :
            Reached(r, k, "NotAvailableThisDay") =>
              /\ RejectedAt(r, k, "NotAvailableThisDay") <=> DayWindows(r.input[k]) = {}
              /\ DayWindows(r.input[k]) # {} =>
                   (RejectedAt(r, k, "OutsideWorkingHours")
                    <=> ~\E n \in DayWindows(r.input[k]) : InsideWindow(r.input[k], n))
      /\ OnlyRequest(r, "w1", NextMonday, Slot(9, 0, 10, 0))
            => r.err \notin {"NotAvailableThisDay", "OutsideWorkingHours"}
      /\ OnlyRequest(r, "w1", NextTuesday, Slot(9, 0, 10, 0)) => r.err = "NotAvailableThisDay"
      /\ OnlyRequest(r, "w1", NextMonday, Slot(7, 0, 8, 0)) => r.err = "OutsideWorkingHours"

\* A visit across two adjacent windows of the day was refused.
C9_Witness ==
  LET r == result[Caller]
  IN  /\ r.called /\ r.err = "OutsideWorkingHours"
      /\ \E n \in DayWindows(r.input[1]) :
            StartMinutes(r.input[1]) >= timeToMinutes(WorkerOf(r.input[1]).availability[n].startTime)
      /\ \E n \in DayWindows(r.input[1]) :
            EndMinutes(r.input[1]) <= timeToMinutes(WorkerOf(r.input[1]).availability[n].endTime)

\* The date lies inside the effective range of window n, if it has one.
InEffectiveRange(b, n) ==
  LET range == WorkerOf(b).availability[n].dateRange
  IN  \/ range = NoRecord
      \/ /\ range.start = NoRecord \/ toLocalDate(range.start) <= toLocalDate(b.date)
         /\ range.end = NoRecord \/ toLocalDate(range.end) >= toLocalDate(b.date)

\* C10: an occurrence that reached the availability check on a date outside
\* the effective range of every window of that weekday is rejected with
\* NotAvailableThisDay.
C10_EffectiveRange ==
  LET r == result[Caller]
  IN  \A k \in Occurrences(r) :
         (/\ Reached(r, k, "NotAvailableThisDay")
          /\ ~\E n \in DayWindows(r.input[k]) : InEffectiveRange(r.input[k], n))
         => RejectedAt(r, k, "NotAvailableThisDay")

(***************************************************************************)
(*                  Properties of concurrent submissions                   *)
(***************************************************************************)

Succeeded(p) == result[p].called /\ result[p].err = "none"

\* C3: the collection never holds two bookings with intersecting time ranges
\* for the same worker and date that two different successful submissions
\* wrote.
C3_NoConcurrentDoubleBooking ==
  \A p \in Procs : \A q \in Procs \ {p} :
     (Succeeded(p) /\ Succeeded(q)) =>
       ~\E m \in 1..Len(result[p].written) : \E n \in 1..Len(result[q].written) :
           LET a == result[p].written[m]
               b == result[q].written[n]
           IN  /\ a.id # b.id
               /\ a.pswWorkerId = b.pswWorkerId /\ a.date = b.date
               /\ Intersect(a, b)
               /\ a.id \in DOMAIN store /\ b.id \in DOMAIN store

\* C4: when two submissions with the same booking identifier have both
\* succeeded and returned, each reports its count and the collection holds
\* under that identifier the whole payload of one of them.
C4_SameIdOneWholePayload ==
  \A p \in Procs : \A q \in Procs \ {p} :
     (Succeeded(p) /\ Succeeded(q) /\ proc[p].pc = "idle" /\ proc[q].pc = "idle") =>
       /\ result[p].count = Len(result[p].input)
       /\ \A m \in 1..Len(result[p].written) : \A n \in 1..Len(result[q].written) :
             LET a == result[p].written[m]
                 b == result[q].written[n]
             IN  a.id = b.id =>
                   /\ a.id \in DOMAIN store
                   /\ store[a.id] = a \/ store[a.id] = b

\* Two submissions with one identifier and different payloads, one without
\* an end time, both succeeded.
C4_Witness ==
  /\ Succeeded("p1") /\ Succeeded("p2")
  /\ proc["p1"].pc = "idle" /\ proc["p2"].pc = "idle"
  /\ Len(result["p1"].written) = 1 /\ Len(result["p2"].written) = 1
  /\ result["p1"].written[1].id = result["p2"].written[1].id
  /\ result["p1"].written[1].endTime # NoString
  /\ result["p2"].written[1].endTime = NoString
  /\ store[result["p1"].written[1].id] = result["p2"].written[1]

(***************************************************************************)
(*                  Properties of the validation order                     *)
(***************************************************************************)

HasWorker(b) == WorkerIdOf(b) # NoValue /\ WorkerIdOf(b) \in DOMAIN workers

HasClient(b) == b.clientId # NoValue /\ b.clientId \in DOMAIN clients

\* Occurrence b breaks the rule named kind, whatever other rules it breaks,
\* for a call made at instant t against the bookings collection st.
Breaks(kind, b, st, t) ==
  CASE kind = "MissingId" -> b.id = NoRecord
    [] kind = "MissingDate" -> b.date = NoRecord
    [] kind = "MissingWorker" -> b.pswWorkerId = NoValue /\ b.userId = NoValue
    [] kind = "MissingClient" -> b.clientId = NoValue
    [] kind = "WorkerNotFound" -> WorkerIdOf(b) # NoValue /\ WorkerIdOf(b) \notin DOMAIN workers
    [] kind = "ClientNotFound" -> b.clientId # NoValue /\ b.clientId \notin DOMAIN clients
    [] kind = "LocationMismatch" ->
         /\ HasWorker(b) /\ HasClient(b)
         /\ \/ TrimmedLower(WorkerOf(b).location) = <<>>
            \/ TrimmedLower(ClientOf(b).location) = <<>>
            \/ TrimmedLower(WorkerOf(b).location) # TrimmedLower(ClientOf(b).location)
    [] kind = "InvalidTimeRange" -> EndMinutes(b) <= StartMinutes(b)
    [] kind = "InsufficientNotice" -> b.date # NoRecord /\ StartInstant(b) - t < 1440
    [] kind = "TierNotOffered" ->
         /\ HasWorker(b)
         /\ WorkerOf(b).serviceLevels # NoString
         /\ \A n \in 1..Len(WorkerOf(b).serviceLevels) :
               WorkerOf(b).serviceLevels[n] #
                 (IF b.serviceLevel = NoValue THEN "basic" ELSE b.serviceLevel)
    [] kind = "NotAvailableThisDay" ->
         HasWorker(b) /\ b.date # NoRecord /\ DayWindows(b) = {}
    [] kind = "OutsideWorkingHours" ->
         /\ HasWorker(b) /\ b.date # NoRecord /\ DayWindows(b) # {}
         /\ ~\E n \in DayWindows(b) : InsideWindow(b, n)
    [] kind = "SlotConflict" ->
         /\ HasWorker(b) /\ b.date # NoRecord
         /\ \E e \in ExistingOf(st, workers, WorkerIdOf(b), b.date) :
               StartMinutes(b) < e.end /\ EndMinutes(b) > e.start

BrokenRules(b, st, t) == {n \in 1..Len(Steps) : Breaks(Steps[n], b, st, t)}

Least(S) == CHOOSE n \in S : \A m \in S : n <= m

\* C11: the error of a call is that of the first occurrence, in expanded
\* order, that breaks a rule, and for that occurrence it is the rule that
\* comes first in the order missing id, missing date, missing worker,
\* missing client, worker not found, client not found, location mismatch,
\* invalid time range, insufficient notice, tier not offered, not available
\* this day, outside working hours, slot conflict.
C11_ValidationOrder ==
  [][CallStep =>
       LET r == result'[Caller]
           failing == {k \in Occurrences(r) : BrokenRules(r.input[k], store, now) # {}}
       IN  Len(r.input) > 0 =>
             IF failing = {} THEN r.err = "none"
             ELSE /\ r.failIdx = Least(failing)
                  /\ r.err = Steps[Least(BrokenRules(r.input[r.failIdx], store, now))]]_vars

\* A call with one occurrence that breaks at least four rules at once was
\* refused for the location rule.
C11_Witness ==
  LET r == result[Caller]
  IN  /\ r.called /\ Len(r.input) = 1
      /\ r.err = "LocationMismatch"
      /\ Cardinality(BrokenRules(r.input[1], store, r.at)) >= 4

(***************************************************************************)
(*                    Properties of the error statuses                     *)
(***************************************************************************)

Malformed ==
  {"InvalidPayload", "NoBookings", "MissingId", "MissingDate", "MissingWorker",
   "MissingClient", "InvalidTimeRange"}

NotFound == {"WorkerNotFound", "ClientNotFound"}

PolicyViolation ==
  {"LocationMismatch", "InsufficientNotice", "TierNotOffered",
   "NotAvailableThisDay", "OutsideWorkingHours", "SlotConflict"}

\* C12: the status of a failed call is 400 for malformed input, 404 for a
\* worker or client record that does not exist, 409 for a broken business
\* policy (insufficient notice included), and 500 for any other error.
C12_StatusTaxonomy ==
  LET r == result[Caller]
  IN  (r.called /\ r.err # "none") =>
        r.status = (CASE r.err \in Malformed -> 400
                      [] r.err \in NotFound -> 404
                      [] r.err \in PolicyViolation -> 409
                      [] OTHER -> 500)

(***************************************************************************)
(*                  Properties of retries and of the count                 *)
(***************************************************************************)

\* The call this step makes repeats the payload of the call before it, which
\* had committed.
RetryStep ==
  /\ CallStep
  /\ result[Caller].called /\ result[Caller].err = "none"
  /\ result'[Caller].request = result[Caller].request

\* C13: submitting again a payload whose first attempt committed succeeds
\* and leaves the collection with the same set of booking identifiers.
C13_RetrySafe ==
  [][RetryStep =>
       /\ result'[Caller].err = "none"
       /\ DOMAIN store' = DOMAIN store]_vars

IdsOf(occs) == {occs[k].id : k \in 1..Len(occs)}

\* C14: a call that succeeds returns the number of expanded occurrences,
\* and this is the number of documents it wrote: each occurrence has its
\* own document in the collection, keyed by its identifier.
C14_CountIsDocumentsWritten ==
  LET r == result[Caller]
  IN  (r.called /\ r.err = "none") =>
        /\ r.count = Len(r.input)
        /\ r.count = Cardinality(IdsOf(r.written))
        /\ \A k \in Occurrences(r) : r.input[k].id \in DOMAIN store

(***************************************************************************)
(*                 Properties of the recurrence expansion                  *)
(***************************************************************************)

\* The call was made with one seed request that carries a descriptor of one
\* of the given frequencies.
SeriesOf(r, frequencies) ==
  /\ r.called /\ r.request.isArray /\ Len(r.request.items) = 1
  /\ r.request.items[1].recurringPattern # NoRecord
  /\ r.request.items[1].recurringPattern.frequency \in frequencies

Seed(r) == r.request.items[1]

Anchor(r) == parseLocalDate(Seed(r).date)

EndOf(r) == parseLocalDate(Seed(r).recurringPattern.endDate)

\* The weekday set of the descriptor: daysOfWeek, or the weekday of the
\* anchor when it is absent or empty.
WeekdaySet(r) ==
  LET ws == Seed(r).recurringPattern.daysOfWeek
  IN  IF Len(ws) > 0 THEN {ws[n] : n \in 1..Len(ws)} ELSE {getDay(Anchor(r))}

DayOf(r, k) == parseLocalDate(r.input[k].date)

\* The occurrences of r are exactly the days of D, in increasing order.
ExactlyInOrder(r, D) ==
  /\ Len(r.input) = Cardinality(D)
  /\ \A k \in Occurrences(r) : DayOf(r, k) \in D
  /\ \A k \in Occurrences(r) : k < Len(r.input) => DayOf(r, k) < DayOf(r, k + 1)

\* C15: for a weekly descriptor whose end date is not before the anchor, the
\* occurrences are exactly the days from the anchor to the end date, both
\* included, whose weekday is in daysOfWeek (the anchor's weekday when
\* daysOfWeek is empty), in increasing order; the series anchored Monday
\* 2025-01-06 with end date 2025-01-27 and no weekdays gives exactly
\* 01-06, 01-13, 01-20, 01-27.
C15_WeeklyExpansion ==
  LET r == result[Caller]
  IN  (SeriesOf(r, {"weekly"}) /\ Anchor(r) <= EndOf(r)) =>
        /\ ExactlyInOrder(r, {d \in Anchor(r)..EndOf(r) : getDay(d) \in WeekdaySet(r)})
        /\ ( /\ Seed(r).date = Day(1, 6)
             /\ Seed(r).recurringPattern.endDate = Day(1, 27)
             /\ Seed(r).recurringPattern.daysOfWeek = <<>> )
           => [k \in Occurrences(r) |-> r.input[k].date]
                = <<Day(1, 6), Day(1, 13), Day(1, 20), Day(1, 27)>>

\* The weekly series of the example was expanded into four occurrences, the
\* last one on the end date.
C15_Witness ==
  LET r == result[Caller]
  IN  /\ SeriesOf(r, {"weekly"})
      /\ Seed(r).date = Day(1, 6)
      /\ Seed(r).recurringPattern.endDate = Day(1, 27)
      /\ Seed(r).recurringPattern.daysOfWeek = <<>>
      /\ Len(r.input) = 4
      /\ r.input[4].date = Day(1, 27)

\* C16: for a biweekly descriptor whose end date is not before the anchor,
\* the occurrences are exactly the days d from the anchor to the end date
\* whose weekday is in the weekday set and with floor((d - anchor) / 7)
\* even; none falls 7 to 13 days after the anchor modulo 14, and with one
\* weekday consecutive occurrences are 14 days apart.
C16_BiweeklyExpansion ==
  LET r == result[Caller]
  IN  (SeriesOf(r, {"biweekly"}) /\ Anchor(r) <= EndOf(r)) =>
        /\ ExactlyInOrder(r, {d \in Anchor(r)..EndOf(r) :
                                 /\ getDay(d) \in WeekdaySet(r)
                                 /\ ((d - Anchor(r)) \div 7) % 2 = 0})
        /\ \A k \in Occurrences(r) : (DayOf(r, k) - Anchor(r)) % 14 < 7
        /\ Cardinality(WeekdaySet(r)) = 1 =>
              \A k \in Occurrences(r) :
                 k < Len(r.input) => DayOf(r, k + 1) - DayOf(r, k) = 14

\* A biweekly series over one weekday gave at least three occurrences.
C16_Witness ==
  LET r == result[Caller]
  IN  /\ SeriesOf(r, {"biweekly"})
      /\ Cardinality(WeekdaySet(r)) = 1
      /\ Len(r.input) >= 3
      /\ DayOf(r, 2) - DayOf(r, 1) = 14

\* The last day of month m of 2025 when the month is shorter than d days,
\* and d otherwise.
DayIn(m, d) == IF d > DaysInMonth(2025, m) THEN DaysInMonth(2025, m) ELSE d

\* C17: for a monthly descriptor whose end date is not before the anchor,
\* occurrence k (k = 0, 1, ...) falls in the k-th month after the anchor's
\* month on the anchor's day of the month (on the last day of a month that
\* is shorter), for every k whose date is not after the end date.
C17_MonthlyExpansion ==
  LET r == result[Caller]
      a == Seed(r).date
      Expected(k) == Day(a.m + k, DayIn(a.m + k, a.d))
  IN  (SeriesOf(r, {"monthly"}) /\ Anchor(r) <= EndOf(r)) =>
        /\ Len(r.input) =
             Cardinality({k \in 0..(12 - a.m) : parseLocalDate(Expected(k)) <= EndOf(r)})
        /\ \A k \in Occurrences(r) : r.input[k].date = Expected(k - 1)

\* C18: no document of the bookings collection carries a recurrence
\* descriptor, and every occurrence made from a seed that has one carries
\* none and has the identifier made of its date, its start time with ':'
\* replaced by '-', and the worker, also when the end date of the
\* descriptor is before its start date.
C18_NoDescriptorStored ==
  LET r == result[Caller]
  IN  /\ \A id \in DOMAIN store : store[id].recurringPattern = NoRecord
      /\ SeriesOf(r, SeriesFrequencies) =>
            \A k \in Occurrences(r) :
               /\ r.input[k].recurringPattern = NoRecord
               /\ r.input[k].id = [date |-> r.input[k].date,
                                   time |-> <<"0", "9", "-", "0", "0">>,
                                   worker |-> "w1"]

\* C19: when the end date of a descriptor is before the anchor date, the
\* expansion gives exactly one occurrence, dated on the anchor date,
\* whatever the frequency.
C19_EndBeforeAnchor ==
  LET r == result[Caller]
  IN  (SeriesOf(r, SeriesFrequencies) /\ EndOf(r) < Anchor(r)) =>
        /\ Len(r.input) = 1
        /\ r.input[1].date = Seed(r).date

\* A monthly series anchored 2025-01-30 that ends 2025-01-27 was expanded
\* into one occurrence on 2025-01-30.
C19_Witness ==
  LET r == result[Caller]
  IN  /\ SeriesOf(r, {"monthly"})
      /\ Seed(r).date = Day(1, 30)
      /\ Seed(r).recurringPattern.endDate = Day(1, 27)
      /\ Len(r.input) = 1
      /\ r.input[1].date = Day(1, 30)

(***************************************************************************)
(*                   Properties of the status transitions                  *)
(***************************************************************************)

\* The payload is one status update.
IsStatusUpdate(request) ==
  /\ request.isArray /\ Len(request.items) = 1
  /\ request.items[1] = StatusUpdate(request.items[1].id, request.items[1].status)

\* C20: a request {id, status} a dashboard posts for a stored booking
\* succeeds and changes the status of that booking to the one asked for,
\* leaving its other stored fields as they were.
C20_StatusTransition ==
  [][(CallStep /\ IsStatusUpdate(result'[Caller].request)) =>
       LET u == result'[Caller].request.items[1]
       IN  u.id \in DOMAIN store =>
             /\ result'[Caller].err = "none"
             /\ store' = [store EXCEPT ![u.id].status = u.status]]_vars

(***************************************************************************)
(*                    Properties of the identifiers                        *)
(***************************************************************************)

\* C21: the identifier of a booking determines its worker on every path, so
\* a call that commits never replaces a stored booking by a booking of
\* another worker.
C21_IdentifierNamesWorker ==
  [][CallStep =>
       \A id \in DOMAIN store :
          store'[id].pswWorkerId = store[id].pswWorkerId]_vars

(***************************************************************************)
(*                       Properties of the times                           *)
(***************************************************************************)

\* s is a well-formed HH:MM time.
WellFormed(s) ==
  /\ Len(s) = 5 /\ s[3] = ":"
  /\ \A n \in {1, 2, 4, 5} : IsDigit(s[n])
  /\ DigitValue(s[1]) * 10 + DigitValue(s[2]) < 24
  /\ DigitValue(s[4]) * 10 + DigitValue(s[5]) < 60

\* Minutes since midnight of a well-formed time.
ClockMinutes(s) ==
  (DigitValue(s[1]) * 10 + DigitValue(s[2])) * 60 + DigitValue(s[4]) * 10 + DigitValue(s[5])

\* The times of b are missing or well-formed.
PlainTimes(b) ==
  /\ b.startTime = NoString \/ WellFormed(b.startTime)
  /\ b.endTime = NoString \/ WellFormed(b.endTime)

\* Start and end in minutes, 09:00 and 10:00 standing for a missing time.
ClockStart(b) == IF b.startTime = NoString THEN 540 ELSE ClockMinutes(b.startTime)

ClockEnd(b) == IF b.endTime = NoString THEN 600 ELSE ClockMinutes(b.endTime)

\* C22: every booking written with missing or well-formed times ends
\* strictly after it starts, 09:00 and 10:00 standing for a missing start
\* and end; an occurrence that reaches the time check is refused there,
\* with InvalidTimeRange and status 400 and nothing written, exactly when
\* its end is not after its start.
C22_EndAfterStart ==
  [][CallStep =>
       LET r == result'[Caller]
       IN  /\ \A id \in DOMAIN store' :
                PlainTimes(store'[id]) => ClockEnd(store'[id]) > ClockStart(store'[id])
           /\ \A k \in Occurrences(r) :
                (PlainTimes(r.input[k]) /\ Reached(r, k, "InvalidTimeRange")) =>
                   IF ClockEnd(r.input[k]) <= ClockStart(r.input[k])
                     THEN /\ r.failIdx = k /\ r.err = "InvalidTimeRange"
                          /\ r.status = 400 /\ store' = store
                   ELSE ~(r.failIdx = k /\ r.err = "InvalidTimeRange")]_vars

\* A visit with no start time that ends 09:00, the default start, was
\* refused for its time range and nothing was written.
C22_Witness ==
  LET r == result[Caller]
  IN  /\ r.called /\ Len(r.input) = 1
      /\ r.input[1].date = NextMonday
      /\ r.input[1].startTime = NoString /\ r.input[1].endTime = Time(9, 0)
      /\ r.err = "InvalidTimeRange" /\ r.status = 400
      /\ DOMAIN store = {}

\* C25: a well-formed HH:MM string converts to hours * 60 + minutes; an
\* occurrence whose start or end time is present and is no well-formed
\* HH:MM time fails with InvalidFormat when its times are read, and no
\* booking with such a time is written.
C25_MalformedTimeRejected ==
  LET r == result[Caller]
  IN  /\ \A s \in TimeStrings : WellFormed(s) => timeToMinutes(s) = ClockMinutes(s)
      /\ \A id \in DOMAIN store : PlainTimes(store[id])
      /\ r.called =>
            \A k \in Occurrences(r) :
               (Reached(r, k, "InvalidTimeRange") /\ ~PlainTimes(r.input[k])) =>
                  r.failIdx = k /\ r.err = "InvalidFormat"

(***************************************************************************)
(*                       Properties of the price                           *)
(***************************************************************************)

\* The multiplier of a tier, in tenths; no tier is the basic tier.
MultiplierTenths(level) ==
  CASE level = "enhanced" -> 12
    [] level = "premium" -> 14
    [] OTHER -> 10

\* n / 6 rounded half-up: the cents c with c - 1/2 <= n / 6 < c + 1/2.
RoundedSixth(n) == CHOOSE c \in 0..n : 6 * c - 3 <= n /\ n < 6 * c + 3

C24_SearchAgreesWithValidator ==
  LET r == result[Caller]
  IN  (found.searched /\ r.called /\ Reached(r, 1, "LocationMismatch")) =>
        (WorkerIdOf(r.input[1]) \in found.ids <=> r.err # "LocationMismatch")

(***************************************************************************)
(*                 Properties of the anchor of a series                    *)
(***************************************************************************)

StartOf(r) == parseLocalDate(Seed(r).recurringPattern.startDate)

\* The days of the series of r counted from its descriptor's start date.
DaysFromStart(r) ==
  LET p == Seed(r).recurringPattern
      a == StartOf(r)
      ws == IF Len(p.daysOfWeek) > 0 THEN {p.daysOfWeek[n] : n \in 1..Len(p.daysOfWeek)}
            ELSE {getDay(a)}
      range == a..EndOf(r)
  IN  CASE p.frequency = "daily" -> range
        [] p.frequency = "weekly" -> {d \in range : getDay(d) \in ws}
        [] p.frequency = "biweekly" ->
             {d \in range : getDay(d) \in ws /\ ((d - a) \div 7) % 2 = 0}
        [] OTHER -> {d \in range : formatLocalDate(d).d = p.startDate.d}

\* C26: when the date of the seed differs from the start date of its
\* descriptor, the occurrences are those of the range from the start date
\* to the end date, the default weekday and the biweekly weeks being
\* counted from the start date.
C26_AnchoredAtStartDate ==
  LET r == result[Caller]
  IN  (SeriesOf(r, SeriesFrequencies) /\ Seed(r).date # Seed(r).recurringPattern.startDate) =>
        ExactlyInOrder(r, DaysFromStart(r))

(***************************************************************************)
(*                       Properties of the stamps                          *)
(***************************************************************************)

\* C27: every booking written has a confirmation deadline 12 hours after
\* its requested-at instant, whatever bookkeeping fields the request
\* carried, the status pending when the request named none, and the date
\* of its request as a plain calendar date.
C27_Stamps ==
  LET r == result[Caller]
  IN  (r.called /\ r.err = "none") =>
        \A k \in Occurrences(r) :
           LET b == r.input[k]
               doc == store[b.id]
           IN  /\ doc.confirmationDeadline = doc.requestedAt + 12 * 60
               /\ b.status = NoValue => doc.status = "pending"
               /\ doc.date = b.date /\ DOMAIN doc.date = {"y", "m", "d"}

(***************************************************************************)
(*                    Properties of the empty commit                       *)
(***************************************************************************)

\* C28: a call that succeeds writes at least one booking document: it
\* never returns count 0 with an empty commit, also for a series whose
\* weekdays match no day from the anchor to the end date.
C28_SuccessWritesSomething ==
  LET r == result[Caller]
  IN  (r.called /\ r.err = "none") =>
        /\ r.count >= 1
        /\ r.written # <<>>
        /\ DOMAIN store # {}

(***************************************************************************)
(*                    Properties of the offered slots                      *)
(***************************************************************************)

\* The request of client c1 for one offered slot of the answered query.
SlotRequest(sl) ==
  Request(offered.worker, "c1", offered.date, sl.start, sl.end, "pending", NoPattern)

\* The slot lies inside one window of the weekday of the asked date.
InsideOneWindow(sl) ==
  \E n \in DayWindows(SlotRequest(sl)) : InsideWindow(SlotRequest(sl), n)

\* The slot intersects no booking of the worker stored for the asked date.
FreeOfBookings(sl) ==
  \A id \in DOMAIN store :
     (store[id].pswWorkerId = offered.worker /\ store[id].date = offered.date)
       => ~Intersect(SlotRequest(sl), store[id])

\* A request for the slot passes the day, hours and conflict steps of the
\* validator against the same collection.
PassesSteps(sl) ==
  LET b == SlotRequest(sl)
      localDate == toLocalDate(b.date)
      dateString == formatLocalDate(localDate)
      windows == workerDayAvailability(workers[offered.worker], localDate)
  IN  /\ Len(windows) # 0
      /\ withinAvailability(windows, b.startTime, b.endTime)
      /\ ~hasConflict(CombinedBookings(workers[offered.worker], store, offered.worker,
                                       dateString, now),
                      timeToMinutes(b.startTime), timeToMinutes(b.endTime), dateString)

\* C29: for a worker whose record embeds no booking, every slot that
\* getAvailableSlots returns for a date lies inside one availability window
\* of the weekday of that date, intersects no existing booking of that
\* date, and a request for exactly that slot passes the day, hours and
\* conflict steps of the validator against the same bookings.
C29_OfferedSlotsBookable ==
  offered.asked =>
    \A i \in 1..Len(offered.slots) :
       /\ InsideOneWindow(offered.slots[i])
       /\ FreeOfBookings(offered.slots[i])
       /\ PassesSteps(offered.slots[i])

(***************************************************************************)
(*                  Properties of the frame of a call                      *)
(***************************************************************************)

\* C30: a call of validateAndSaveBookings, whether it succeeds or fails,
\* changes no worker record and no client record; a failing call changes no
\* booking document, and a successful call creates or changes only the
\* booking documents whose identifiers are those of its expanded
\* occurrences, every other booking document staying as it was.
C30_Frame ==
  [][CallStep =>
       LET r == result'[Caller]
       IN  /\ workers' = workers
           /\ clients' = clients
           /\ r.err # "none" => store' = store
           /\ r.err = "none" =>
                /\ DOMAIN store' = DOMAIN store \cup IdsOf(r.input)
                /\ \A id \in DOMAIN store :
                      id \notin IdsOf(r.input) => store'[id] = store[id]]_vars

\* A second call succeeded and a document of the first call, which is not
\* one of its occurrences, is still in the collection.
C30_Witness ==
  LET r == result[Caller]
  IN  /\ calls = 2
      /\ r.err = "none"
      /\ Len(r.input) > 0
      /\ \E id \in DOMAIN store : id \notin IdsOf(r.input)
      /\ workers = WorkerDirectory

=============================================================================
